---- MODULE Spec2Model ----
(***************************************************************************)
(* State-machine model of the ELS demo stack:                              *)
(*   Canonical.py  raw -> tanh -> U* -> safety gate -> warmth recovery     *)
(*   xc.py         CanonicalSnapshot, depth_band, to_xc_envelope           *)
(*   ul.py         ULMapper.map and its helpers                            *)
(*                                                                         *)
(* Number representation.  Every Python float x of the program is held as  *)
(* the integer round(x * 1000) (thousandths): -0.95 is -950, 0.15 is 150,  *)
(* 220 mV is 220000, pH 6.7 is 6700.  Sums and comparisons are exact on    *)
(* this grid.  math.tanh is a table of the library's values rounded to the *)
(* same grid, over the points the model evaluates it at.                   *)
(***************************************************************************)
EXTENDS Integers, Sequences, FiniteSets, TLC

VARIABLES
    sess,   \* sess[i]: the attributes of EmotionCanonical instance i
    alone,  \* alone[i]: a private replica of instance i that is fed only
            \*           instance i's own calls
    ret,    \* the last session call, what it returned, and what the
            \* replica returned for the same call
    call,   \* the pending call of a stateless function, with its arguments
    out,    \* what that call returned
    legacy, \* legacy[i]: the attributes of an instance of the earlier
            \*            EmotionCanonical (els/canonical.py) that is fed the
            \*            samples of instance i
    seen,   \* seen[i]: how many BLOCKED verdicts instance i has produced,
            \*          counted up to MaxSeen
    thr     \* thr[t]: where thread t stands inside a process call on
            \*         instance 1, and what it holds in its locals

vars == <<sess, alone, ret, call, out, legacy, seen, thr>>

\* Number of EmotionCanonical instances alive at once.
NumSessions == 2

Sessions == 1..NumSessions

----------------------------------------------------------------------------
\* Canonical.py: constants

\* SafetyLevel values (Canonical.py:23-25)
OK == "ok"
WARNING == "warning"
BLOCKED == "blocked"

\* threshold + 0.15 (Canonical.py:63)
WarningMargin == 150

\* redline_threshold: float = -0.95 (Canonical.py:89)
DefaultThreshold == -950

\* self.recover_warmth(0.3) (Canonical.py:187)
RecoverStep == 300

\* if self.warmth_c > 1.0: self.warmth_c = 1.0 (Canonical.py:155-156)
WarmthCap == 1000

----------------------------------------------------------------------------
\* Inputs

\* raw_emotion samples: -5.0, -2.0, -1.5, -1.0, -0.5, 0.0, 0.5, 2.0, and
\* -1.684508110014489 (written -1685), the float whose U* is exactly -0.95
RawSamples == {-5000, -2000, -1685, -1500, -1000, -500, 0, 500, 2000}

\* redline thresholds a session is constructed with: the default, the U* of
\* raw -1.0 itself (u == threshold), and that U* less the margin
\* (u == threshold + 0.15)
SessionThresholds == {DefaultThreshold, -885, -1035}

\* time steps recover_warmth is called with directly
TimeSteps == {0, 300, 1200}

----------------------------------------------------------------------------
\* Canonical.py: transforms

\* a / b rounded to the nearest integer, halves away from zero (b > 0)
RoundDiv(a, b) ==
    IF a >= 0 THEN (2 * a + b) \div (2 * b)
              ELSE -((2 * (-a) + b) \div (2 * b))

\* math.tanh at the points the pipeline reaches from RawSamples
tanh(x) ==
    CASE x = -5000 -> -1000
      [] x = -2000 -> -964
      [] x = -1928 -> -959
      [] x = -1866 -> -953
      [] x = -1810 -> -948
      [] x = -1685 -> -933
      [] x = -1524 -> -909
      [] x = -1500 -> -905
      [] x = -1000 -> -762
      [] x = -924  -> -728
      [] x = -500  -> -462
      [] x = 0     -> 0
      [] x = 500   -> 462
      [] x = 924   -> 728
      [] x = 1928  -> 959
      [] x = 2000  -> 964

tanh_normalize(x) == tanh(x)

\* (math.tanh(2 * x) + x * 0.2) / 1.2
u_transform(x) == RoundDiv(10 * tanh(2 * x) + 2 * x, 12)

----------------------------------------------------------------------------
\* Canonical.py: safety gate

\* apply_redline_safety with strict comparisons
apply_redline_safety_lt(u, threshold) ==
    IF u < threshold THEN
        [level |-> BLOCKED,
         reason |-> "ELS_U* below hard redline; block or strongly de-escalate.",
         u_value |-> u, threshold |-> threshold]
    ELSE IF u < threshold + WarningMargin THEN
        [level |-> WARNING,
         reason |-> "ELS_U* near redline; respond carefully and de-escalate.",
         u_value |-> u, threshold |-> threshold]
    ELSE
        [level |-> OK, reason |-> "ELS_U* in safe range.",
         u_value |-> u, threshold |-> threshold]

apply_redline_safety(u, threshold) ==
    IF u <= threshold THEN
        [level |-> BLOCKED,
         reason |-> "ELS_U* below hard redline; block or strongly de-escalate.",
         u_value |-> u, threshold |-> threshold]
    ELSE IF u <= threshold + WarningMargin THEN
        [level |-> WARNING,
         reason |-> "ELS_U* near redline; respond carefully and de-escalate.",
         u_value |-> u, threshold |-> threshold]
    ELSE
        [level |-> OK, reason |-> "ELS_U* in safe range.",
         u_value |-> u, threshold |-> threshold]

----------------------------------------------------------------------------
\* Canonical.py: EmotionCanonical

\* __init__: the attributes of a new instance
EmotionCanonical(redline_threshold) ==
    [redline_threshold |-> redline_threshold, warmth_c |-> 0]

\* Attributes kept on the class: a write through any instance reaches all.
SelfAttrs_shared(i) == Sessions

\* The instances whose attributes a write through `self` of instance i
\* reaches: the attributes are created per instance in __init__.
SelfAttrs(i) == {i}

\* recover_warmth without the clamp
recover_warmth_noclamp(self, dt) ==
    [self EXCEPT !.warmth_c = self.warmth_c + dt]

\* recover_warmth whose overflow branch starts over at 0.0
recover_warmth_reset(self, dt) ==
    LET added == [self EXCEPT !.warmth_c = self.warmth_c + dt]
    IN  IF added.warmth_c > WarmthCap
        THEN [added EXCEPT !.warmth_c = 0]
        ELSE added

\* recover_warmth: the instance after the call
recover_warmth(self, dt) ==
    LET added == [self EXCEPT !.warmth_c = self.warmth_c + dt]
    IN  IF added.warmth_c > WarmthCap
        THEN [added EXCEPT !.warmth_c = WarmthCap]
        ELSE added

\* process that builds the returned dict from the attributes read before the
\* recovery step
process_stale_warmth(self, raw_emotion) ==
    LET n == tanh_normalize(raw_emotion)
        u == u_transform(n)
        safety == apply_redline_safety(u, self.redline_threshold)
        after == IF safety.level = BLOCKED
                 THEN recover_warmth(self, RecoverStep)
                 ELSE self
    IN  [self |-> after,
         result |-> [raw |-> raw_emotion, n |-> n, u |-> u,
                     redline_threshold |-> self.redline_threshold,
                     safety_level |-> safety.level,
                     safety_reason |-> safety.reason,
                     warmth_c |-> self.warmth_c]]

\* process that runs the recovery step whatever the verdict
process_recover_always(self, raw_emotion) ==
    LET n == tanh_normalize(raw_emotion)
        u == u_transform(n)
        safety == apply_redline_safety(u, self.redline_threshold)
        after == recover_warmth(self, RecoverStep)
    IN  [self |-> after,
         result |-> [raw |-> raw_emotion, n |-> n, u |-> u,
                     redline_threshold |-> after.redline_threshold,
                     safety_level |-> safety.level,
                     safety_reason |-> safety.reason,
                     warmth_c |-> after.warmth_c]]

\* process that runs the recovery step on a WARNING verdict as well
process_recover_on_warning(self, raw_emotion) ==
    LET n == tanh_normalize(raw_emotion)
        u == u_transform(n)
        safety == apply_redline_safety(u, self.redline_threshold)
        after == IF safety.level \in {BLOCKED, WARNING}
                 THEN recover_warmth(self, RecoverStep)
                 ELSE self
    IN  [self |-> after,
         result |-> [raw |-> raw_emotion, n |-> n, u |-> u,
                     redline_threshold |-> after.redline_threshold,
                     safety_level |-> safety.level,
                     safety_reason |-> safety.reason,
                     warmth_c |-> after.warmth_c]]

\* process: the instance after the call, and the dict it returns
process(self, raw_emotion) ==
    LET n == tanh_normalize(raw_emotion)
        u == u_transform(n)
        safety == apply_redline_safety(u, self.redline_threshold)
        after == IF safety.level = BLOCKED
                 THEN recover_warmth(self, RecoverStep)
                 ELSE self
    IN  [self |-> after,
         result |-> [raw |-> raw_emotion, n |-> n, u |-> u,
                     redline_threshold |-> after.redline_threshold,
                     safety_level |-> safety.level,
                     safety_reason |-> safety.reason,
                     warmth_c |-> after.warmth_c]]

\* detect_redline
detect_redline(self, u) == u < self.redline_threshold

----------------------------------------------------------------------------
\* els/canonical.py: the earlier EmotionCanonical.  Its tanh_normalize and
\* u_transform are the same expressions as in Canonical.py.

\* self.redline_threshold = -0.95 (els/canonical.py:10)
LegacyThreshold == -950

\* self.recover_warmth(0.3) (els/canonical.py:47)
LegacyRecoverStep == 300

\* if self.warmth_c > 1.0: self.warmth_c = 1.0 (els/canonical.py:35-36)
LegacyWarmthCap == 1000

\* __init__
LegacyEmotionCanonical ==
    [redline_threshold |-> LegacyThreshold, warmth_c |-> 0]

\* detect_redline
legacy_detect_redline(self, u) == u < self.redline_threshold

\* recover_warmth
legacy_recover_warmth(self, dt) ==
    LET added == [self EXCEPT !.warmth_c = self.warmth_c + dt]
    IN  IF added.warmth_c > LegacyWarmthCap
        THEN [added EXCEPT !.warmth_c = LegacyWarmthCap]
        ELSE added

\* process: the instance after the call, and the dict it returns
legacy_process(self, raw_emotion) ==
    LET n == tanh_normalize(raw_emotion)
        u == u_transform(n)
        hit_redline == legacy_detect_redline(self, u)
        after == IF hit_redline
                 THEN legacy_recover_warmth(self, LegacyRecoverStep)
                 ELSE self
    IN  [self |-> after,
         result |-> [raw |-> raw_emotion, norm |-> n, u |-> u,
                     redline |-> hit_redline,
                     warmth_c |-> after.warmth_c]]

----------------------------------------------------------------------------
\* State machine of the sessions

\* How far BLOCKED verdicts are counted.
MaxSeen == 4

\* Number of threads that call process on one instance without a lock.
NumThreads == 2

Threads == 1..NumThreads

\* a thread outside any call
IdleThread == [pc |-> "idle"]

\* No legacy instance has been fed, nothing counted, no thread in a call.
Quiet ==
    /\ legacy = LegacyEmotionCanonical
    /\ seen = [i \in Sessions |-> 0]
    /\ thr = [t \in Threads |-> IdleThread]

NoCall == [op |-> "none"]

NoResult == [op |-> "none"]

InitSessions ==
    /\ sess \in [Sessions -> {EmotionCanonical(t) : t \in SessionThresholds}]
    /\ alone = sess
    /\ ret = NoResult
    /\ Quiet

Init ==
    /\ InitSessions
    /\ call = NoCall
    /\ out = NoResult

\* what process(raw_emotion) on instance i does to the instances
ProcessCall(i, raw_emotion) ==
    LET r == process(sess[i], raw_emotion)
        a == process(alone[i], raw_emotion)
    IN  /\ sess' = [j \in Sessions |->
                       IF j \in SelfAttrs(i) THEN r.self ELSE sess[j]]
        /\ ret' = [op |-> "process", self |-> i, result |-> r.result,
                   alone |-> a.result]
        /\ alone' = [alone EXCEPT ![i] = a.self]

\* instance i runs process(raw_emotion)
Process(i, raw_emotion) ==
    /\ ProcessCall(i, raw_emotion)
    /\ UNCHANGED <<call, out, legacy, seen, thr>>

\* instance i runs recover_warmth(dt), called directly
RecoverWarmth(i, dt) ==
    LET r == recover_warmth(sess[i], dt)
        a == recover_warmth(alone[i], dt)
    IN  /\ sess' = [j \in Sessions |->
                       IF j \in SelfAttrs(i) THEN r ELSE sess[j]]
        /\ ret' = [op |-> "recover_warmth", self |-> i, dt |-> dt]
        /\ alone' = [alone EXCEPT ![i] = a]
        /\ UNCHANGED <<call, out, legacy, seen, thr>>

ProcessStep == \E i \in Sessions, raw \in RawSamples : Process(i, raw)

RecoverWarmthStep == \E i \in Sessions, dt \in TimeSteps : RecoverWarmth(i, dt)

\* Sessions driven by process calls only.
Next == ProcessStep

Spec == Init /\ [][Next]_vars

\* Sessions driven by every state-changing method of the class.
NextOps == ProcessStep \/ RecoverWarmthStep

SpecOps == Init /\ [][NextOps]_vars

----------------------------------------------------------------------------
\* The current class and the earlier one, side by side

\* U* values detect_redline is called with: at and beside every threshold
DetectUValues == UNION {{t - 1, t, t + 1} : t \in SessionThresholds}

\* One instance of the earlier class runs beside the first session and is
\* configured like it: the earlier class has no constructor argument and
\* gets its threshold by assignment, as ELSCore.__init__ does
\* (core.py:38-40).
InitLegacy ==
    /\ sess \in [Sessions -> {EmotionCanonical(t) : t \in SessionThresholds}]
    /\ alone = sess
    /\ ret = NoResult
    /\ legacy = [LegacyEmotionCanonical EXCEPT
                    !.redline_threshold = sess[1].redline_threshold]
    /\ seen = [i \in Sessions |-> 0]
    /\ thr = [t \in Threads |-> IdleThread]
    /\ call = NoCall
    /\ out = NoResult

\* instance i answers detect_redline(u)
DetectRedline(i, u) ==
    /\ ret' = [op |-> "detect_redline", self |-> i, u |-> u,
               value |-> detect_redline(sess[i], u)]
    /\ UNCHANGED <<sess, alone, call, out, legacy, seen, thr>>

\* the same sample goes to the first session and to the legacy instance
SameSample(raw_emotion) ==
    /\ ProcessCall(1, raw_emotion)
    /\ legacy' = legacy_process(legacy, raw_emotion).self
    /\ UNCHANGED <<call, out, seen, thr>>

DetectRedlineStep ==
    \E i \in Sessions, u \in DetectUValues : DetectRedline(i, u)

SameSampleStep ==
    \E raw \in RawSamples : SameSample(raw)

NextLegacy == DetectRedlineStep \/ SameSampleStep

SpecLegacy == InitLegacy /\ [][NextLegacy]_vars

----------------------------------------------------------------------------
\* process called on one instance by several threads, without a lock.  A
\* thread can be preempted between the statements of recover_warmth and
\* before process builds the dict it returns.

\* self.warmth_c += 1.0 * dt that leaves the attribute as it was
recover_warmth_add_lost(self, dt) == self

\* self.warmth_c += 1.0 * dt
recover_warmth_add(self, dt) ==
    [self EXCEPT !.warmth_c = self.warmth_c + dt]

\* if self.warmth_c > 1.0
recover_warmth_over(self) == self.warmth_c > WarmthCap

\* self.warmth_c = 1.0
recover_warmth_clamp(self) == [self EXCEPT !.warmth_c = WarmthCap]

\* samples the threads send: one that is BLOCKED at the default threshold
\* and one that is not
RaceSamples == {-5000, 0}

\* the verdict process computes for raw_emotion on instance `self`
safety_of(self, raw_emotion) ==
    apply_redline_safety(u_transform(tanh_normalize(raw_emotion)),
                         self.redline_threshold)

InitRace ==
    /\ sess = [i \in Sessions |-> EmotionCanonical(DefaultThreshold)]
    /\ alone = sess
    /\ ret = NoResult
    /\ Quiet
    /\ call = NoCall
    /\ out = NoResult

\* thread t enters process(raw_emotion) on the first instance and runs up
\* to the test of the verdict
Enter(t, raw_emotion) ==
    LET blocked == safety_of(sess[1], raw_emotion).level = BLOCKED
    IN  /\ thr[t].pc = "idle"
        /\ thr' = [thr EXCEPT ![t] =
                      [pc |-> IF blocked THEN "add" ELSE "return",
                       raw_emotion |-> raw_emotion]]
        /\ seen' = IF blocked /\ seen[1] < MaxSeen
                   THEN [seen EXCEPT ![1] = seen[1] + 1]
                   ELSE seen
        /\ UNCHANGED <<sess, alone, ret, call, out, legacy>>

\* thread t adds dt to warmth_c
Add(t) ==
    /\ thr[t].pc = "add"
    /\ sess' = [sess EXCEPT ![1] = recover_warmth_add(sess[1], RecoverStep)]
    /\ thr' = [thr EXCEPT ![t].pc = "compare"]
    /\ UNCHANGED <<alone, ret, call, out, legacy, seen>>

\* thread t compares warmth_c with 1.0
Compare(t) ==
    /\ thr[t].pc = "compare"
    /\ thr' = [thr EXCEPT ![t].pc =
                  IF recover_warmth_over(sess[1]) THEN "clamp" ELSE "return"]
    /\ UNCHANGED <<sess, alone, ret, call, out, legacy, seen>>

\* thread t sets warmth_c to 1.0
Clamp(t) ==
    /\ thr[t].pc = "clamp"
    /\ sess' = [sess EXCEPT ![1] = recover_warmth_clamp(sess[1])]
    /\ thr' = [thr EXCEPT ![t].pc = "return"]
    /\ UNCHANGED <<alone, ret, call, out, legacy, seen>>

\* thread t reads the attributes for the dict and returns it
Return(t) ==
    LET raw_emotion == thr[t].raw_emotion
        n == tanh_normalize(raw_emotion)
        u == u_transform(n)
        safety == apply_redline_safety(u, sess[1].redline_threshold)
    IN  /\ thr[t].pc = "return"
        /\ ret' = [op |-> "process", self |-> 1,
                   result |-> [raw |-> raw_emotion, n |-> n, u |-> u,
                               redline_threshold |-> sess[1].redline_threshold,
                               safety_level |-> safety.level,
                               safety_reason |-> safety.reason,
                               warmth_c |-> sess[1].warmth_c]]
        /\ thr' = [thr EXCEPT ![t] = IdleThread]
        /\ UNCHANGED <<sess, alone, call, out, legacy, seen>>

EnterStep == \E t \in Threads, raw \in RaceSamples : Enter(t, raw)

AddStep == \E t \in Threads : Add(t)

CompareStep == \E t \in Threads : Compare(t)

ClampStep == \E t \in Threads : Clamp(t)

ReturnStep == \E t \in Threads : Return(t)

NextRace == EnterStep \/ AddStep \/ CompareStep \/ ClampStep \/ ReturnStep

SpecRace == InitRace /\ [][NextRace]_vars

----------------------------------------------------------------------------
\* Sessions driven by serialized process calls to which BLOCKED samples keep
\* arriving

\* instance i runs process(raw_emotion); the BLOCKED verdicts it has
\* returned are counted beside it
CountedProcess(i, raw_emotion) ==
    /\ ProcessCall(i, raw_emotion)
    /\ seen' = IF /\ process(sess[i], raw_emotion).result.safety_level = BLOCKED
                  /\ seen[i] < MaxSeen
               THEN [seen EXCEPT ![i] = seen[i] + 1]
               ELSE seen
    /\ UNCHANGED <<call, out, legacy, thr>>

CountedProcessStep ==
    \E i \in Sessions, raw \in RawSamples : CountedProcess(i, raw)

NextLive == CountedProcessStep

\* instance i runs process on a sample whose verdict is BLOCKED
BlockedSample(i) ==
    \E raw \in RawSamples :
        /\ safety_of(sess[i], raw).level = BLOCKED
        /\ CountedProcess(i, raw)

\* thresholds of the sessions: the default, and one that no sample of the
\* input set reaches
LiveThresholds == {DefaultThreshold, -1035}

InitLive ==
    /\ sess \in [Sessions -> {EmotionCanonical(t) : t \in LiveThresholds}]
    /\ alone = sess
    /\ ret = NoResult
    /\ Quiet
    /\ call = NoCall
    /\ out = NoResult

\* Every session that can still be sent a BLOCKED sample is sent one sooner
\* or later.
SpecLive ==
    InitLive /\ [][NextLive]_vars /\ \A i \in Sessions : WF_vars(BlockedSample(i))

----------------------------------------------------------------------------
\* Stateless calls: the gate on its own

\* thresholds the gate is called with
GateThresholds == {-1035, DefaultThreshold, -885, 0, 850}

\* U* values the gate is called with: around every threshold and around
\* every threshold + 0.15 (one thousandth below, at, one thousandth above),
\* and the ends of [-1, 1]
GateUValues ==
    {-1000, 1000} \cup
    UNION {{t - 1, t, t + 1,
            t + WarningMargin - 1, t + WarningMargin, t + WarningMargin + 1} :
           t \in GateThresholds}

StaticSessions ==
    /\ sess = [i \in Sessions |-> EmotionCanonical(DefaultThreshold)]
    /\ alone = sess
    /\ ret = NoResult
    /\ Quiet

InitGate ==
    /\ StaticSessions
    /\ call \in {[op |-> "apply_redline_safety", u |-> u, threshold |-> t] :
                    u \in GateUValues, t \in GateThresholds}
    /\ out = NoResult

ApplyRedlineSafety ==
    /\ call.op = "apply_redline_safety"
    /\ out.op = "none"
    /\ out' = [op |-> call.op,
               value |-> apply_redline_safety(call.u, call.threshold)]
    /\ UNCHANGED <<sess, alone, ret, call, legacy, seen, thr>>

NextGate == ApplyRedlineSafety

SpecGate == InitGate /\ [][NextGate]_vars

----------------------------------------------------------------------------
\* xc.py

\* Optional[T]: None is the empty tuple, a value x is <<x>>.
None == <<>>

Some(x) == <<x>>

\* CanonicalSnapshot.depth_band with the boundaries in the upper band
depth_band_lt(self) ==
    LET u == self.u_star
    IN  IF u < -800 THEN "abyss"
        ELSE IF u < -300 THEN "deep_rain"
        ELSE IF u < 300 THEN "mid"
        ELSE "surface"

\* CanonicalSnapshot.depth_band
depth_band(self) ==
    LET u == self.u_star
    IN  IF u <= -800 THEN "abyss"
        ELSE IF u <= -300 THEN "deep_rain"
        ELSE IF u <= 300 THEN "mid"
        ELSE "surface"

\* XCSafetyMeta(): the dataclass defaults
XCSafetyMeta == [safety_level |-> "ok", reason |-> "normal", version |-> "1.0b"]

\* _auto_safety_for that derives caution only strictly below -0.95
_auto_safety_for_lt(c) ==
    IF c.u_star < -950
    THEN [safety_level |-> "caution", reason |-> "extreme_depth",
          version |-> "1.0b"]
    ELSE XCSafetyMeta

\* _auto_safety_for
_auto_safety_for(c) ==
    IF c.u_star <= -950
    THEN [safety_level |-> "caution", reason |-> "extreme_depth",
          version |-> "1.0b"]
    ELSE XCSafetyMeta

\* to_xc_envelope where the derived header wins over the caller's whenever
\* the derived one is not the default
to_xc_envelope_auto_first(a, now) ==
    LET canonical == [warmth_c |-> a.warmth_c, sorrow_pH |-> a.sorrow_pH,
                      drive_mV |-> a.drive_mV, u_star |-> a.u_star]
        ctx == [source |-> a.source, channel |-> a.channel,
                culture |-> a.culture, user_id |-> a.user_id,
                tags |-> IF a.tags = None \/ a.tags[1] = <<>>
                         THEN <<>> ELSE a.tags[1]]
        auto == _auto_safety_for(canonical)
        safety_meta == IF a.safety = None \/ auto # XCSafetyMeta
                       THEN auto ELSE a.safety[1]
    IN  [xc_version |-> "1.0b",
         timestamp |-> now,
         canonical |-> [warmth_c |-> canonical.warmth_c,
                        sorrow_pH |-> canonical.sorrow_pH,
                        drive_mV |-> canonical.drive_mV,
                        u_star |-> canonical.u_star,
                        depth_band |-> depth_band(canonical)],
         context |-> ctx,
         safety |-> safety_meta]

\* to_xc_envelope(warmth_c, sorrow_pH, drive_mV, u_star, *, source, channel,
\* culture, user_id, tags, safety): `a` holds the arguments, `now` is what
\* datetime.now(timezone.utc).strftime(...) returns.  `tags or []` is [] for
\* None and for an empty list; `safety or ...` is safety for every
\* XCSafetyMeta instance, since a dataclass instance is always true.
to_xc_envelope(a, now) ==
    LET canonical == [warmth_c |-> a.warmth_c, sorrow_pH |-> a.sorrow_pH,
                      drive_mV |-> a.drive_mV, u_star |-> a.u_star]
        ctx == [source |-> a.source, channel |-> a.channel,
                culture |-> a.culture, user_id |-> a.user_id,
                tags |-> IF a.tags = None \/ a.tags[1] = <<>>
                         THEN <<>> ELSE a.tags[1]]
        safety_meta == IF a.safety = None
                       THEN _auto_safety_for(canonical) ELSE a.safety[1]
    IN  [xc_version |-> "1.0b",
         timestamp |-> now,
         canonical |-> [warmth_c |-> canonical.warmth_c,
                        sorrow_pH |-> canonical.sorrow_pH,
                        drive_mV |-> canonical.drive_mV,
                        u_star |-> canonical.u_star,
                        depth_band |-> depth_band(canonical)],
         context |-> ctx,
         safety |-> safety_meta]

\* u_star values around every threshold of xc.py (-0.95, -0.8, -0.3, 0.3)
XcUValues ==
    {-1000, -951, -950, -949, -801, -800, -799, -301, -300, -299,
     0, 299, 300, 301, 1000}

\* the safety argument: omitted, or one of three explicit headers
XcSafetyArgs ==
    {None,
     Some(XCSafetyMeta),
     Some([safety_level |-> "caution", reason |-> "extreme_depth",
           version |-> "1.0b"]),
     Some([safety_level |-> "hold", reason |-> "manual_review",
           version |-> "1.0b"])}

XcTagArgs == {None, Some(<<>>), Some(<<"demo">>)}

\* what the clock reads when the envelope is built
XcClock == {"2026-01-01T00:00:00Z", "2026-01-01T00:00:01Z"}

XcSnapshots ==
    {[warmth_c |-> 300, sorrow_pH |-> 7000, drive_mV |-> 120000, u_star |-> u] :
        u \in XcUValues}

InitXC ==
    /\ StaticSessions
    /\ call \in
          {[op |-> "to_xc_envelope",
            args |-> [warmth_c |-> c.warmth_c, sorrow_pH |-> c.sorrow_pH,
                      drive_mV |-> c.drive_mV, u_star |-> c.u_star,
                      source |-> "chat", channel |-> "web",
                      culture |-> "generic", user_id |-> None,
                      tags |-> t, safety |-> s]] :
             c \in XcSnapshots, t \in XcTagArgs, s \in XcSafetyArgs}
          \cup {[op |-> "depth_band", self |-> c] : c \in XcSnapshots}
    /\ out = NoResult

ToXcEnvelope ==
    /\ call.op = "to_xc_envelope"
    /\ out.op = "none"
    /\ \E now \in XcClock :
          out' = [op |-> call.op, value |-> to_xc_envelope(call.args, now)]
    /\ UNCHANGED <<sess, alone, ret, call, legacy, seen, thr>>

DepthBand ==
    /\ call.op = "depth_band"
    /\ out.op = "none"
    /\ out' = [op |-> call.op, value |-> depth_band(call.self)]
    /\ UNCHANGED <<sess, alone, ret, call, legacy, seen, thr>>

NextXC == ToXcEnvelope \/ DepthBand

SpecXC == InitXC /\ [][NextXC]_vars

----------------------------------------------------------------------------
\* ul.py

\* Intensity values (ul.py:26-28)
LOW == "low"
MEDIUM == "medium"
HIGH == "high"

\* the text substituted for extreme negative states (ul.py:183)
Softened == "Even in the deepest water, you are gently held by the ocean."

Abs(x) == IF x < 0 THEN -x ELSE x

\* ULMapper._base_metaphor with the three modifiers chained as one
\* if/elif: the first one that applies keeps the others from applying
_base_metaphor_chained(s) ==
    LET u == s.u_star
        depth == IF u <= -800 THEN "a deep seabed where light is faint"
                 ELSE IF u <= -300 THEN "rain falling in the quiet ocean"
                 ELSE IF u <= 300 THEN "slow mid-depth currents"
                 ELSE "surface waves glittering with light"
    IN  IF s.warmth_c >= 700 THEN "warm " \o depth
        ELSE IF s.warmth_c <= 200 THEN "cool " \o depth
        ELSE IF s.sorrow_pH < 6700
        THEN depth \o ", carrying a soft echo of sadness"
        ELSE IF s.sorrow_pH > 7300
        THEN depth \o ", feeling unusually clear"
        ELSE IF s.drive_mV > 180000
        THEN depth \o ", already ready to move again"
        ELSE IF s.drive_mV < 40000
        THEN depth \o ", almost at rest"
        ELSE depth

\* ULMapper._base_metaphor
_base_metaphor(s) ==
    LET u == s.u_star
        depth == IF u <= -800 THEN "a deep seabed where light is faint"
                 ELSE IF u <= -300 THEN "rain falling in the quiet ocean"
                 ELSE IF u <= 300 THEN "slow mid-depth currents"
                 ELSE "surface waves glittering with light"
        warmed == IF s.warmth_c >= 700 THEN "warm " \o depth
                  ELSE IF s.warmth_c <= 200 THEN "cool " \o depth
                  ELSE depth
        sorrowed == IF s.sorrow_pH < 6700
                    THEN warmed \o ", carrying a soft echo of sadness"
                    ELSE IF s.sorrow_pH > 7300
                    THEN warmed \o ", feeling unusually clear"
                    ELSE warmed
    IN  IF s.drive_mV > 180000
        THEN sorrowed \o ", already ready to move again"
        ELSE IF s.drive_mV < 40000
        THEN sorrowed \o ", almost at rest"
        ELSE sorrowed

\* ULMapper._intensity_for with the LOW test ahead of the HIGH test
_intensity_for_low_first(s) ==
    IF Abs(s.u_star) < 300 /\ 300 <= s.warmth_c /\ s.warmth_c <= 700
    THEN LOW
    ELSE IF Abs(s.u_star) > 900 \/ s.drive_mV > 220000
    THEN HIGH
    ELSE MEDIUM

\* ULMapper._intensity_for
_intensity_for(s) ==
    IF Abs(s.u_star) > 900 \/ s.drive_mV > 220000
    THEN HIGH
    ELSE IF Abs(s.u_star) < 300 /\ 300 <= s.warmth_c /\ s.warmth_c <= 700
    THEN LOW
    ELSE MEDIUM

\* ULMapper._symbol_for with the boundaries in the upper band
_symbol_for_lt(s) ==
    LET u == s.u_star
    IN  IF u < -800 THEN "U+1F30A"
        ELSE IF u < -300 THEN "U+1F327 U+FE0F"
        ELSE IF u < 300 THEN "U+1F4A7"
        ELSE "U+2747 U+FE0F"

\* ULMapper._symbol_for; a glyph is written as its code points
_symbol_for(s) ==
    LET u == s.u_star
    IN  IF u <= -800 THEN "U+1F30A"
        ELSE IF u <= -300 THEN "U+1F327 U+FE0F"
        ELSE IF u <= 300 THEN "U+1F4A7"
        ELSE "U+2747 U+FE0F"

\* ULMapper._apply_safety_filters that softens only strictly below -0.95
_apply_safety_filters_lt(text, s) ==
    IF s.u_star < -950
    THEN <<Softened, "softened_extreme_negative">>
    ELSE <<text, "normal">>

\* ULMapper._apply_safety_filters: <<text, note>>
_apply_safety_filters(text, s) ==
    IF s.u_star <= -950
    THEN <<Softened, "softened_extreme_negative">>
    ELSE <<text, "normal">>

\* ULMapper.map; `context` is not read
map(state, context) ==
    LET base_text == _base_metaphor(state)
        filtered == _apply_safety_filters(base_text, state)
    IN  [text |-> filtered[1],
         symbol |-> _symbol_for(state),
         intensity |-> _intensity_for(state),
         safety_note |-> filtered[2]]

\* u_star values around every threshold of ul.py
\* (-0.95, -0.9, -0.8, -0.3, 0.3, 0.9)
UlUValues ==
    {-1000, -951, -950, -949, -901, -900, -899, -801, -800, -799,
     -301, -300, -299, 0, 299, 300, 301, 899, 900, 901, 1000}

\* warmth_c values around 0.2, 0.3 and 0.7
UlWarmthValues == {0, 200, 201, 299, 300, 700, 701, 1000}

\* sorrow_pH values around 6.7 and 7.3
UlSorrowValues == {6699, 6700, 7000, 7300, 7301}

\* drive_mV values around 40, 180 and 220
UlDriveValues == {39999, 40000, 180000, 180001, 220000, 220001}

EmotionStates ==
    [warmth_c : UlWarmthValues, sorrow_pH : UlSorrowValues,
     drive_mV : UlDriveValues, u_star : UlUValues]

InitUL ==
    /\ StaticSessions
    /\ call \in {[op |-> "map", state |-> st, context |-> None] :
                    st \in EmotionStates}
               \cup {[op |-> "_base_metaphor", s |-> st] :
                        st \in EmotionStates}
    /\ out = NoResult

Map ==
    /\ call.op = "map"
    /\ out.op = "none"
    /\ out' = [op |-> call.op, value |-> map(call.state, call.context)]
    /\ UNCHANGED <<sess, alone, ret, call, legacy, seen, thr>>

BaseMetaphor ==
    /\ call.op = "_base_metaphor"
    /\ out.op = "none"
    /\ out' = [op |-> call.op, value |-> _base_metaphor(call.s)]
    /\ UNCHANGED <<sess, alone, ret, call, legacy, seen, thr>>

NextUL == Map \/ BaseMetaphor

SpecUL == InitUL /\ [][NextUL]_vars

----------------------------------------------------------------------------
\* The stack of the package: Canonical -> XC -> UL.  A session with the
\* default threshold processes a sample; its u goes on as u_star, and its
\* warmth_c as warmth_c, of the snapshot given to to_xc_envelope (no safety
\* argument) and of the state given to map.

\* sorrow_pH and drive_mV of the snapshot, which process does not produce
PipeSorrowValues == {7000}

PipeDriveValues == {40000, 220001}

\* what the clock reads when the envelope is built
PipeClock == {"2026-01-01T00:00:00Z"}

InitPipe ==
    /\ StaticSessions
    /\ call = NoCall
    /\ out = NoResult

\* instance i runs process(raw_emotion) and the result goes through xc and ul
ProcessAndPassOn(i, raw_emotion, sorrow_pH, drive_mV) ==
    LET r == process(sess[i], raw_emotion).result
        state == [warmth_c |-> r.warmth_c, sorrow_pH |-> sorrow_pH,
                  drive_mV |-> drive_mV, u_star |-> r.u]
        args == [warmth_c |-> state.warmth_c, sorrow_pH |-> state.sorrow_pH,
                 drive_mV |-> state.drive_mV, u_star |-> state.u_star,
                 source |-> "chat", channel |-> "web",
                 culture |-> "generic", user_id |-> None,
                 tags |-> None, safety |-> None]
    IN  /\ ProcessCall(i, raw_emotion)
        /\ \E now \in PipeClock :
              out' = [op |-> "pipeline",
                      canonical |-> r,
                      xc |-> to_xc_envelope(args, now),
                      ul |-> map(state, None)]
        /\ UNCHANGED <<call, legacy, seen, thr>>

ProcessAndPassOnStep ==
    \E i \in Sessions, raw \in RawSamples,
       sorrow_pH \in PipeSorrowValues, drive_mV \in PipeDriveValues :
          ProcessAndPassOn(i, raw, sorrow_pH, drive_mV)

NextPipe == ProcessAndPassOnStep

SpecPipe == InitPipe /\ [][NextPipe]_vars

----------------------------------------------------------------------------
\* Properties of the sessions

Min(a, b) == IF a <= b THEN a ELSE b

\* C2: in every state reached by process calls from newly created sessions,
\* each session's warmth_c lies in [0, 1]; before any call it is 0, and it
\* never exceeds 1.0.
C2_WarmthInUnitInterval ==
    /\ \A i \in Sessions : 0 <= sess[i].warmth_c /\ sess[i].warmth_c <= WarmthCap
    /\ ret.op = "none" => \A i \in Sessions : sess[i].warmth_c = 0

\* A BLOCKED sample arrived at a session that had already accumulated three
\* steps: 0.9 + 0.3 was clamped to 1.0.
C2_Witness ==
    /\ ret.op = "process"
    /\ ret.result.safety_level = BLOCKED
    /\ sess[ret.self].warmth_c = WarmthCap

C4_ProcessFrame ==
    [][ret'.op = "process" =>
          LET i == ret'.self
              lvl == ret'.result.safety_level
          IN  /\ lvl \in {BLOCKED, WARNING, OK}
              /\ DOMAIN sess'[i] = DOMAIN sess[i]
              /\ sess'[i].redline_threshold = sess[i].redline_threshold
              /\ lvl = BLOCKED =>
                    sess'[i].warmth_c = Min(WarmthCap, sess[i].warmth_c + RecoverStep)
              /\ lvl \in {WARNING, OK} =>
                    sess'[i].warmth_c = sess[i].warmth_c]_vars

\* A WARNING sample was processed by a session that already held warmth 0.3.
C4_Witness ==
    /\ ret.op = "process"
    /\ ret.result.safety_level = WARNING
    /\ sess[ret.self].warmth_c = RecoverStep

\* C5: the dict process returns reports the state after the recovery step:
\* its warmth_c is the stored warmth_c at return, its safety_level is the
\* gate's verdict for its u against the session's threshold, its
\* redline_threshold is the session's; the first BLOCKED sample of a fresh
\* session returns warmth_c 0.3.
C5_ResultReportsStateAfter ==
    [][ret'.op = "process" =>
          LET i == ret'.self
              res == ret'.result
          IN  /\ res.warmth_c = sess'[i].warmth_c
              /\ res.redline_threshold = sess'[i].redline_threshold
              /\ res.u = u_transform(tanh_normalize(res.raw))
              /\ res.safety_level = BLOCKED <=> res.u <= sess[i].redline_threshold
              /\ res.safety_level = WARNING <=>
                    /\ res.u > sess[i].redline_threshold
                    /\ res.u <= sess[i].redline_threshold + WarningMargin
              /\ res.safety_level = OK <=>
                    res.u > sess[i].redline_threshold + WarningMargin
              /\ (sess[i].warmth_c = 0 /\ res.safety_level = BLOCKED) =>
                    res.warmth_c = RecoverStep]_vars

\* The first BLOCKED sample of a session returned warmth_c 0.3.
C5_Witness ==
    /\ ret.op = "process"
    /\ ret.result.safety_level = BLOCKED
    /\ ret.result.warmth_c = RecoverStep
    /\ sess[ret.self].warmth_c = RecoverStep

\* C6: sessions share no recovery state: a process call on one instance
\* leaves every other instance's warmth_c and redline_threshold unchanged,
\* and every instance's state and results are those of its replica that
\* runs alone.
C6_SessionsIsolated ==
    /\ [](\A i \in Sessions : sess[i] = alone[i])
    /\ [](ret.op = "process" => ret.result = ret.alone)
    /\ [][ret'.op = "process" =>
             \A j \in Sessions \ {ret'.self} : sess'[j] = sess[j]]_vars

\* Two sessions with the same threshold have been driven to different
\* warmth values by interleaved calls.
C6_Witness ==
    /\ ret.op = "process"
    /\ \E i, j \in Sessions :
          /\ i # j
          /\ sess[i].redline_threshold = sess[j].redline_threshold
          /\ sess[i].warmth_c = 2 * RecoverStep
          /\ sess[j].warmth_c = RecoverStep

----------------------------------------------------------------------------
\* Properties of the stateless calls

\* C1: apply_redline_safety(u, t) is BLOCKED exactly when u <= t, WARNING
\* exactly when t < u <= t + 0.15 and OK exactly when u > t + 0.15, so that
\* u = t is BLOCKED and u = t + 0.15 is WARNING; the result carries the u and
\* t of the call.
C1_GateBands ==
    out.op = "apply_redline_safety" =>
        LET u == call.u
            t == call.threshold
            g == out.value
        IN  /\ g.level = BLOCKED <=> u <= t
            /\ g.level = WARNING <=> (t < u /\ u <= t + WarningMargin)
            /\ g.level = OK <=> u > t + WarningMargin
            /\ u = t => g.level = BLOCKED
            /\ u = t + WarningMargin => g.level = WARNING
            /\ g.u_value = u
            /\ g.threshold = t

\* The gate has answered WARNING for u exactly 0.15 above the threshold.
C1_Witness ==
    /\ out.op = "apply_redline_safety"
    /\ call.u = call.threshold + WarningMargin
    /\ out.value.level = WARNING

\* The depth band a finished xc call computed, and the u_star it was for.
XcBand ==
    IF out.op = "depth_band" THEN out.value
    ELSE out.value.canonical.depth_band

XcUStar ==
    IF call.op = "depth_band" THEN call.self.u_star ELSE call.args.u_star

\* C7: depth_band gives every u_star exactly one band: abyss when u <= -0.8,
\* deep_rain when -0.8 < u <= -0.3, mid when -0.3 < u <= 0.3, surface when
\* u > 0.3; -0.8, -0.3 and 0.3 fall in the lower band.
C7_DepthBandPartition ==
    out.op \in {"depth_band", "to_xc_envelope"} =>
        LET u == XcUStar
            b == XcBand
        IN  /\ b \in {"abyss", "deep_rain", "mid", "surface"}
            /\ b = "abyss" <=> u <= -800
            /\ b = "deep_rain" <=> (-800 < u /\ u <= -300)
            /\ b = "mid" <=> (-300 < u /\ u <= 300)
            /\ b = "surface" <=> u > 300

\* depth_band has answered deep_rain for u_star exactly -0.3.
C7_Witness ==
    /\ out.op = "depth_band"
    /\ call.self.u_star = -300
    /\ out.value = "deep_rain"

\* C8: the envelope's safety header is the caller's whenever one is given,
\* whatever u_star is; when none is given it is {caution, extreme_depth} for
\* u_star <= -0.95 and {ok, normal} otherwise, so a derived header is never
\* hold, and a derived caution comes with depth_band abyss.
C8_ExplicitSafetyWins ==
    out.op = "to_xc_envelope" =>
        LET a == call.args
            h == out.value.safety
        IN  /\ a.safety # None => h = a.safety[1]
            /\ a.safety = None =>
                  /\ a.u_star <= -950 =>
                        h.safety_level = "caution" /\ h.reason = "extreme_depth"
                  /\ a.u_star > -950 =>
                        h.safety_level = "ok" /\ h.reason = "normal"
                  /\ h.safety_level # "hold"
                  /\ h.safety_level = "caution" =>
                        out.value.canonical.depth_band = "abyss"

\* An envelope for u_star at or below -0.95 was built with the caller's own
\* ok header, and carries it.
C8_Witness ==
    /\ out.op = "to_xc_envelope"
    /\ call.args.u_star <= -950
    /\ call.args.safety = Some(XCSafetyMeta)
    /\ out.value.safety.safety_level = "ok"

\* C9: map replaces the text outright for u_star <= -0.95 (fixed text, note
\* softened_extreme_negative, whatever warmth, sorrow and drive are) and for
\* u_star > -0.95 returns the composed base metaphor with note normal; symbol
\* and intensity are what they are without the override.
C9_SafetyOverride ==
    out.op = "map" =>
        LET s == call.state
            r == out.value
        IN  /\ s.u_star <= -950 =>
                  r.text = Softened /\ r.safety_note = "softened_extreme_negative"
            /\ s.u_star > -950 =>
                  /\ r.text = _base_metaphor(s)
                  /\ r.text # Softened
                  /\ r.safety_note = "normal"
            /\ r.symbol = _symbol_for(s)
            /\ r.intensity = _intensity_for(s)

\* map has softened a state with u_star exactly -0.95 whose modifiers would
\* all have applied.
C9_Witness ==
    /\ out.op = "map"
    /\ call.state.u_star = -950
    /\ call.state.warmth_c >= 700
    /\ call.state.sorrow_pH < 6700
    /\ call.state.drive_mV > 180000
    /\ out.value.text = Softened
    /\ out.value.safety_note = "softened_extreme_negative"

\* C10: intensity is HIGH when |u_star| > 0.9 or drive_mV > 220; otherwise
\* LOW when |u_star| < 0.3 and 0.3 <= warmth <= 0.7; otherwise MEDIUM.  A
\* state meeting both the HIGH and the LOW test is HIGH, and every state
\* gets exactly one of the three.
C10_IntensityPriority ==
    out.op = "map" =>
        LET s == call.state
            x == out.value.intensity
            high == Abs(s.u_star) > 900 \/ s.drive_mV > 220000
            low == Abs(s.u_star) < 300 /\ 300 <= s.warmth_c /\ s.warmth_c <= 700
        IN  /\ x \in {LOW, MEDIUM, HIGH}
            /\ x = HIGH <=> high
            /\ x = LOW <=> (~high /\ low)
            /\ x = MEDIUM <=> (~high /\ ~low)

\* A state meeting both tests (u_star 0, warmth 0.3, drive above 220) was
\* mapped, and got HIGH.
C10_Witness ==
    /\ out.op = "map"
    /\ call.state.u_star = 0
    /\ call.state.warmth_c = 300
    /\ call.state.drive_mV > 220000
    /\ out.value.intensity = HIGH

----------------------------------------------------------------------------
\* Properties of the metaphor text

\* The four depth images of ul.py.
CorePhrases ==
    {"a deep seabed where light is faint",
     "rain falling in the quiet ocean",
     "slow mid-depth currents",
     "surface waves glittering with light"}

\* The base metaphor a finished ul call composed (map shows it only when it
\* does not soften), and the state it was composed for.
UlShowsBase ==
    \/ out.op = "_base_metaphor"
    \/ out.op = "map" /\ call.state.u_star > -950

UlBaseText == IF out.op = "map" THEN out.value.text ELSE out.value

UlState == IF call.op = "map" THEN call.state ELSE call.s

\* C11: the base metaphor is prefix, depth image, sorrow/clarity clause and
\* drive clause in that order, each decided by its own test alone: prefix
\* "warm " iff warmth >= 0.7, "cool " iff warmth <= 0.2, else none; sorrow
\* clause iff sorrow_pH < 6.7, clarity clause iff sorrow_pH > 7.3, else
\* none; "ready to move again" iff drive_mV > 180, "almost at rest" iff
\* drive_mV < 40, else none.
C11_ModifiersIndependent ==
    UlShowsBase =>
        LET s == UlState
            prefix == IF s.warmth_c >= 700 THEN "warm "
                      ELSE IF s.warmth_c <= 200 THEN "cool " ELSE ""
            sorrow == IF s.sorrow_pH < 6700
                      THEN ", carrying a soft echo of sadness"
                      ELSE IF s.sorrow_pH > 7300
                      THEN ", feeling unusually clear" ELSE ""
            drive == IF s.drive_mV > 180000
                     THEN ", already ready to move again"
                     ELSE IF s.drive_mV < 40000
                     THEN ", almost at rest" ELSE ""
        IN  \E core \in CorePhrases :
                UlBaseText = prefix \o core \o sorrow \o drive

\* A base metaphor was composed for a state in which all three modifiers
\* apply at once: warm, sorrowful and ready to move.
C11_Witness ==
    /\ out.op = "_base_metaphor"
    /\ call.s.warmth_c >= 700
    /\ call.s.sorrow_pH < 6700
    /\ call.s.drive_mV > 180000
    /\ Len(out.value) > Len("warm ") + Len(", carrying a soft echo of sadness")

----------------------------------------------------------------------------
\* Properties relating ul.py to xc.py

\* The glyph and the depth image that go with each depth band of xc.py.
GlyphOfBand(b) ==
    CASE b = "abyss" -> "U+1F30A"
      [] b = "deep_rain" -> "U+1F327 U+FE0F"
      [] b = "mid" -> "U+1F4A7"
      [] b = "surface" -> "U+2747 U+FE0F"

CoreOfBand(b) ==
    CASE b = "abyss" -> "a deep seabed where light is faint"
      [] b = "deep_rain" -> "rain falling in the quiet ocean"
      [] b = "mid" -> "slow mid-depth currents"
      [] b = "surface" -> "surface waves glittering with light"

\* text holds part right after one of the prefixes "", "warm ", "cool "
HoldsAfterPrefix(text, part) ==
    \E prefix \in {"", "warm ", "cool "} :
        /\ Len(text) >= Len(prefix) + Len(part)
        /\ SubSeq(text, 1, Len(prefix)) = prefix
        /\ SubSeq(text, Len(prefix) + 1, Len(prefix) + Len(part)) = part

\* C12: the symbol and the depth image of ul.py are functions of xc.py's
\* depth_band of the same u_star, one glyph and one image per band with the
\* same boundaries; two states share a symbol exactly when they share a
\* band, whatever their warmth, sorrow and drive.
C12_UlBandsAgreeWithXc ==
    /\ out.op = "map" =>
          LET s == call.state
          IN  /\ out.value.symbol = GlyphOfBand(depth_band(s))
              /\ \A u2 \in UlUValues :
                    (_symbol_for([s EXCEPT !.u_star = u2]) = out.value.symbol)
                        <=> (depth_band([s EXCEPT !.u_star = u2]) = depth_band(s))
              /\ \A w \in UlWarmthValues, p \in UlSorrowValues, d \in UlDriveValues :
                    _symbol_for([s EXCEPT !.warmth_c = w, !.sorrow_pH = p,
                                          !.drive_mV = d]) = out.value.symbol
    /\ UlShowsBase =>
          HoldsAfterPrefix(UlBaseText, CoreOfBand(depth_band(UlState)))

\* map gave the deepest glyph to a warm state with u_star exactly -0.8, the
\* upper edge of xc.py's abyss.
C12_Witness ==
    /\ out.op = "map"
    /\ call.state.u_star = -800
    /\ call.state.warmth_c >= 700
    /\ depth_band(call.state) = "abyss"
    /\ out.value.symbol = "U+1F30A"

----------------------------------------------------------------------------
\* Properties relating the two redline tests

\* C13: detect_redline(u) is True exactly when the gate's verdict for u
\* against the session's threshold is BLOCKED, and so the legacy process
\* (recovery on detect_redline) and the current process (recovery on
\* BLOCKED) hold the same warmth_c after the same samples.
C13_DetectRedlineIsBlocked ==
    /\ ret.op = "detect_redline" =>
          (ret.value <=>
              apply_redline_safety(
                  ret.u, sess[ret.self].redline_threshold).level = BLOCKED)
    /\ legacy.warmth_c = sess[1].warmth_c

----------------------------------------------------------------------------
\* Properties of calls that are not serialized

\* every thread is outside process
AllReturned == \A t \in Threads : thr[t].pc = "idle"

\* C14 as stated: with process calls on one session interleaving between
\* the add, the compare and the clamp of recover_warmth and the read of
\* warmth_c for the result, every reported warmth_c lies in [0, 1] and no
\* BLOCKED sample's increment is lost.
C14_ReportedWarmthInUnitInterval ==
    /\ ret.op = "process" =>
          0 <= ret.result.warmth_c /\ ret.result.warmth_c <= WarmthCap
    /\ AllReturned =>
          sess[1].warmth_c = Min(WarmthCap, RecoverStep * seen[1])

\* C14 (amended): under the same interleaving a reported warmth_c is at
\* least 0 and exceeds 1.0 by at most 0.3 for every other thread (a call
\* can read the attribute between another call's add and its clamp); the
\* stored warmth_c is in [0, 1] whenever no call is between its add and its
\* clamp; and no BLOCKED sample's increment is lost: once every call has
\* returned, warmth_c is min(1.0, 0.3 * k) for the k BLOCKED verdicts.
C14_ReportedWarmthOvershoot ==
    /\ ret.op = "process" =>
          /\ 0 <= ret.result.warmth_c
          /\ ret.result.warmth_c <=
                WarmthCap + RecoverStep * (NumThreads - 1)
    /\ (\A t \in Threads : thr[t].pc \notin {"compare", "clamp"}) =>
          0 <= sess[1].warmth_c /\ sess[1].warmth_c <= WarmthCap
    /\ AllReturned =>
          sess[1].warmth_c = Min(WarmthCap, RecoverStep * seen[1])

\* A call has returned a warmth_c above 1.0 while another call was between
\* its add and its clamp.
C14_Witness ==
    /\ ret.op = "process"
    /\ ret.result.warmth_c > WarmthCap
    /\ \E t \in Threads : thr[t].pc \in {"compare", "clamp"}

----------------------------------------------------------------------------
\* Properties of the three layers together

\* C15: for a session with the default threshold whose u is passed on as
\* u_star, the canonical verdict is BLOCKED iff XC's derived safety_level is
\* caution iff UL's safety_note is softened_extreme_negative; and whenever
\* UL's note is softened_extreme_negative the intensity is HIGH and the
\* symbol is the glyph of the deepest band.
C15_LayersAgreeOnExtreme ==
    out.op = "pipeline" =>
        LET blocked == out.canonical.safety_level = BLOCKED
            caution == out.xc.safety.safety_level = "caution"
            softened == out.ul.safety_note = "softened_extreme_negative"
        IN  /\ out.canonical.redline_threshold = DefaultThreshold
            /\ out.xc.canonical.u_star = out.canonical.u
            /\ blocked <=> caution
            /\ caution <=> softened
            /\ softened =>
                  /\ out.ul.intensity = HIGH
                  /\ out.ul.symbol = GlyphOfBand("abyss")

\* A sample whose u is exactly -0.95 went through the three layers with a
\* drive that alone would not make the intensity HIGH: BLOCKED, caution and
\* softened.
C15_Witness ==
    /\ out.op = "pipeline"
    /\ out.canonical.u = DefaultThreshold
    /\ out.canonical.safety_level = BLOCKED
    /\ out.xc.safety.safety_level = "caution"
    /\ out.ul.safety_note = "softened_extreme_negative"
    /\ out.ul.intensity = HIGH
    /\ out.xc.canonical.drive_mV <= 220000

----------------------------------------------------------------------------
\* Properties of a session over time

\* some sample of the input set is BLOCKED at the threshold of session i
CanBlock(i) ==
    \E raw \in RawSamples : safety_of(sess[i], raw).level = BLOCKED

\* C16: under serialized process calls warmth_c of a session is
\* min(1.0, 0.3 * k) for the number k of BLOCKED verdicts it has seen,
\* however the other samples are interleaved; so after four BLOCKED verdicts
\* it is 1.0, it stays 1.0 under every later call, and a session to which
\* BLOCKED samples keep arriving eventually has warmth_c 1.0.
C16_WarmthCountsBlocked ==
    /\ [](\A i \in Sessions :
            /\ sess[i].warmth_c = Min(WarmthCap, RecoverStep * seen[i])
            /\ seen[i] >= 4 => sess[i].warmth_c = WarmthCap)
    /\ [][\A i \in Sessions :
            /\ sess[i].warmth_c = WarmthCap => sess'[i].warmth_c = WarmthCap
            /\ seen'[i] = seen[i] => sess'[i].warmth_c = sess[i].warmth_c]_vars
    /\ <>(\A i \in Sessions :
            CanBlock(i) => sess[i].warmth_c = WarmthCap)

\* A session that has seen four BLOCKED verdicts and holds 1.0 has just
\* processed a sample that was not BLOCKED.
C16_Witness ==
    /\ ret.op = "process"
    /\ ret.result.safety_level # BLOCKED
    /\ seen[ret.self] = 4
    /\ sess[ret.self].warmth_c = WarmthCap

====
